---------------------------- MODULE Spec2Model ----------------------------
(* A model of the shell post-processor: ShellPostProcessor.Configure and   *)
(* ShellPostProcessor.PostProcess (shell/post-processor.go) and the        *)
(* artifact they return (shell/artifact.go).                               *)
(*                                                                         *)
(* Paths, commands, the shebang and messages are strings.  Environment     *)
(* entries are sequences of one-character strings, so that the split on    *)
(* "=" is computed.  A Go slice is a record [nil, elems]: a nil slice and  *)
(* an empty non-nil slice are different values, as they are to the code.   *)
EXTENDS Naturals, Sequences, FiniteSets, TLC

VARIABLES
    raw,        \* p.config as config.Decode left it (history of the input)
    config,     \* p.config
    phase,      \* "Unconfigured" | "Configured" | "ConfigFailed"
    errs,       \* the packer.MultiError Configure returned (<<>>: nil)
    fs,         \* the paths that exist on disk
    content,    \* the content of the temporary inline script
    pc,         \* PostProcess: "idle" | "loop" | "returning"
    artifact,   \* PostProcess's incoming artifact
    scripts,    \* PostProcess's local scripts
    envVars,    \* PostProcess's local envVars
    tmpName,    \* tf.Name() of the running call ("" when there is none)
    deferred,   \* the running call's deferred calls, in the order deferred
    fi,         \* index of the file the loop is at
    si,         \* index of the script the loop is at
    stderr,     \* the bytes.Buffer stderr
    stdout,     \* the bytes.Buffer stdout
    runs,       \* what the running (or last) call attempted, pair by pair
    result,     \* what the last call returned: [artifact, keep, err]
    calls,      \* PostProcess calls that have returned
    emitted,    \* history: what the runs of the call wrote to standard error
    failedCalls \* history: PostProcess calls that have returned an error

vars == <<raw, config, phase, errs, fs, content, pc, artifact, scripts,
          envVars, tmpName, deferred, fi, si, stderr, stdout, runs, result,
          calls, emitted, failedCalls>>

runVars == <<fs, content, pc, artifact, scripts, envVars, tmpName, deferred,
             fi, si, stderr, stdout, runs, result, calls, emitted,
             failedCalls>>

-----------------------------------------------------------------------------
(* Bounds *)

MaxInline  == 2     \* inline commands in a configuration
MaxScripts == 2     \* entries of scripts in a configuration
MaxVars    == 2     \* entries of environment_vars in a configuration
MaxEnvLen  == 3     \* characters of an environment entry
MaxFiles   == 2     \* files of an artifact
MaxCalls   == 2     \* PostProcess calls on one post-processor

-----------------------------------------------------------------------------
(* Go values *)

NilSlice == [nil |-> TRUE, elems |-> <<>>]

Slice(s) == [nil |-> FALSE, elems |-> s]

SeqsUpTo(S, n) == UNION {[1..k -> S] : k \in 0..n}

Range(s) == {s[i] : i \in DOMAIN s}

\* The slices of at most n elements of S, and the nil slice.
SlicesUpTo(S, n) == {NilSlice} \cup {Slice(s) : s \in SeqsUpTo(S, n)}

-----------------------------------------------------------------------------
(* The environment of the program: the disk and the template engine *)

\* The i-th script on disk.
ScriptName(i) == "s" \o ToString(i) \o ".sh"

ScriptFiles == {ScriptName(i) : i \in 1..MaxScripts}

TmpNames == {"/tmp/packer-shell1", "/tmp/packer-shell2"}

\* A template the engine cannot parse (an action that is never closed).
BadTemplates == {"{{"}

\* interpolate.Render on a string: the zero string and an error when the
\* template does not parse; a string with no template action renders to
\* itself.
Render(s) ==
    IF s \in BadTemplates THEN [val |-> "", ok |-> FALSE]
    ELSE [val |-> s, ok |-> TRUE]

\* interpolate.Render on an environment entry: "{" opens an action that is
\* never closed.
RenderEntry(kv) ==
    IF "{" \in Range(kv) THEN [val |-> <<>>, ok |-> FALSE]
    ELSE [val |-> kv, ok |-> TRUE]

\* interpolate.Validate: whether the template parses.
Validate(s) == s \notin BadTemplates

\* os.Stat(path) returns no error.
Stat(files, path) == path \in files

-----------------------------------------------------------------------------
(* Configure *)

Err(kind, arg) == [kind |-> kind, arg |-> arg]

\* packer.MultiErrorAppend(errs, err)
MultiErrorAppend(es, e) == Append(es, e)

\* strings.Index(kv, sep) + 1, counted from position i; 0 when sep is absent.
RECURSIVE IndexFrom(_, _, _)
IndexFrom(kv, sep, i) ==
    IF i > Len(kv) THEN 0
    ELSE IF kv[i] = sep THEN i
    ELSE IndexFrom(kv, sep, i + 1)

\* A plausible slip: strings.Split, which cuts at every "=".
RECURSIVE Split(_)
Split(kv) ==
    LET i == IndexFrom(kv, "=", 1)
    IN  IF i = 0 THEN <<kv>>
        ELSE <<SubSeq(kv, 1, i - 1)>> \o Split(SubSeq(kv, i + 1, Len(kv)))

\* strings.SplitN(kv, "=", 2): cut at the first "=" only.
SplitN(kv) ==
    LET i == IndexFrom(kv, "=", 1)
    IN  IF i = 0 THEN <<kv>>
        ELSE <<SubSeq(kv, 1, i - 1), SubSeq(kv, i + 1, Len(kv))>>

\* len(vs) != 2 || vs[0] == ""
BadEnv(kv) ==
    LET vs == SplitN(kv)
    IN  Len(vs) # 2 \/ vs[1] = <<>>

\* InlineShebang, Scripts and Vars get their defaults.
Defaults(c) ==
    [c EXCEPT !.InlineShebang = IF @ = "" THEN "/bin/sh" ELSE @,
              !.Scripts = IF @.nil THEN Slice(<<>>) ELSE @,
              !.Vars = IF @.nil THEN Slice(<<>>) ELSE @]

\* script and scripts are both set.
CheckOnlyOne(st) ==
    IF st.config.Script # "" /\ Len(st.config.Scripts.elems) > 0
    THEN [st EXCEPT !.errs = MultiErrorAppend(@, Err("OnlyOneScript", <<>>))]
    ELSE st

\* script becomes the one element of scripts.
NormalizeScript(st) ==
    IF st.config.Script # ""
    THEN [st EXCEPT !.config.Scripts = Slice(<<st.config.Script>>)]
    ELSE st

CheckTarget(st) ==
    IF Validate(st.config.TargetPath) THEN st
    ELSE [st EXCEPT !.errs = MultiErrorAppend(@, Err("TargetTemplate", <<>>))]

\* One turn of the loop over templates: *ptr, err = Render(*ptr).
RenderField(st, n) ==
    LET old == IF n = "inline_shebang" THEN st.config.InlineShebang
               ELSE st.config.Script
        r   == Render(old)
        c   == IF n = "inline_shebang"
               THEN [st.config EXCEPT !.InlineShebang = r.val]
               ELSE [st.config EXCEPT !.Script = r.val]
    IN  [config |-> c,
         errs |-> IF r.ok THEN st.errs
                  ELSE MultiErrorAppend(st.errs, Err("Processing", <<n>>))]

\* The loop over templates, a map: Go ranges over it in any order.
RECURSIVE RenderTemplates(_, _)
RenderTemplates(st, order) ==
    IF order = <<>> THEN st
    ELSE RenderTemplates(RenderField(st, Head(order)), Tail(order))

SliceOf(c, n) ==
    CASE n = "inline" -> c.Inline
      [] n = "scripts" -> c.Scripts
      [] n = "environment_vars" -> c.Vars

\* slice[i], err = Render(elem): the slice shares p.config's elements.
RenderElem(st, n, i) ==
    LET old == SliceOf(st.config, n).elems[i]
        r   == IF n = "environment_vars" THEN RenderEntry(old) ELSE Render(old)
        c   == CASE n = "inline" ->
                      [st.config EXCEPT !.Inline.elems[i] = r.val]
                 [] n = "scripts" ->
                      [st.config EXCEPT !.Scripts.elems[i] = r.val]
                 [] n = "environment_vars" ->
                      [st.config EXCEPT !.Vars.elems[i] = r.val]
    IN  [config |-> c,
         errs |-> IF r.ok THEN st.errs
                  ELSE MultiErrorAppend(st.errs, Err("ProcessingElem", <<n, i>>))]

RECURSIVE RenderSlice(_, _, _)
RenderSlice(st, n, i) ==
    IF i > Len(SliceOf(st.config, n).elems) THEN st
    ELSE RenderSlice(RenderElem(st, n, i), n, i + 1)

\* The loop over sliceTemplates, a map: Go ranges over it in any order.
RECURSIVE RenderSlices(_, _)
RenderSlices(st, order) ==
    IF order = <<>> THEN st
    ELSE RenderSlices(RenderSlice(st, Head(order), 1), Tail(order))

\* Neither a script nor inline commands, or both.
CheckEitherOr(st) ==
    IF Len(st.config.Scripts.elems) = 0 /\ st.config.Inline.nil
    THEN [st EXCEPT !.errs = MultiErrorAppend(@, Err("EitherRequired", <<>>))]
    ELSE IF Len(st.config.Scripts.elems) > 0 /\ ~st.config.Inline.nil
    THEN [st EXCEPT !.errs = MultiErrorAppend(@, Err("NotBoth", <<>>))]
    ELSE st

\* The loop over p.config.Scripts, from index i: os.Stat of each path.
RECURSIVE CheckScripts(_, _, _)
CheckScripts(st, files, i) ==
    IF i > Len(st.config.Scripts.elems) THEN st
    ELSE LET path == st.config.Scripts.elems[i]
             nx   == IF Stat(files, path) THEN st
                     ELSE [st EXCEPT !.errs =
                              MultiErrorAppend(@, Err("BadScript", <<path>>))]
         IN  CheckScripts(nx, files, i + 1)

\* The loop over p.config.Vars, from index i.
RECURSIVE CheckVars(_, _)
CheckVars(st, i) ==
    IF i > Len(st.config.Vars.elems) THEN st
    ELSE LET kv == st.config.Vars.elems[i]
             nx == IF BadEnv(kv)
                   THEN [st EXCEPT !.errs = MultiErrorAppend(@, Err("BadEnv", kv))]
                   ELSE st
         IN  CheckVars(nx, i + 1)

TemplateOrders == {<<"inline_shebang", "script">>, <<"script", "inline_shebang">>}

SliceTemplateOrders ==
    {<<a, b, c>> : a, b, c \in {"inline", "scripts", "environment_vars"}}
    \ {o \in {<<a, b, c>> : a, b, c \in {"inline", "scripts", "environment_vars"}} :
          o[1] = o[2] \/ o[1] = o[3] \/ o[2] = o[3]}

\* Configure after config.Decode: p.config and errs when it returns.
ConfigureFrom(c, files, tOrder, sOrder) ==
    LET s0 == [config |-> Defaults(c), errs |-> <<>>]
        s1 == NormalizeScript(CheckOnlyOne(s0))
        s2 == CheckTarget(s1)
        s3 == RenderTemplates(s2, tOrder)
        s4 == RenderSlices(s3, sOrder)
        s5 == CheckEitherOr(s4)
        s6 == CheckScripts(s5, files, 1)
    IN  CheckVars(s6, 1)

\* Configure: it returns errs when there are any, and nil otherwise.
Configure ==
    /\ phase = "Unconfigured"
    /\ \E tOrder \in TemplateOrders, sOrder \in SliceTemplateOrders :
          LET st == ConfigureFrom(config, fs, tOrder, sOrder)
          IN  /\ config' = st.config
              /\ errs' = st.errs
              /\ phase' = IF Len(st.errs) > 0 THEN "ConfigFailed" ELSE "Configured"
    /\ UNCHANGED <<raw, runVars>>

-----------------------------------------------------------------------------
(* The artifact PostProcess returns (shell/artifact.go) *)

NoArtifact == [nil |-> TRUE, Path |-> "", BuilderId |-> "", Provider |-> ""]

\* NewArtifact sets Path and Provider; BuilderId keeps its zero value.
NewArtifact(provider, builderId, path) ==
    [nil |-> FALSE, Path |-> path, BuilderId |-> "", Provider |-> provider]

ArtifactBuilderId(a) == a.BuilderId

ArtifactId(a) == a.Provider

\* PostProcess names name and outputPath and nothing defines them: they
\* stand for any value.
Names == {"virtualbox", "vmware"}

OutputPaths == {"out.box"}

-----------------------------------------------------------------------------
(* PostProcess *)

NoError == [kind |-> "none", msg |-> ""]

NoResult == [artifact |-> NoArtifact, keep |-> FALSE, err |-> NoError]

FileName(i) == "file" \o ToString(i)

\* The incoming artifacts: up to MaxFiles files.
Artifacts ==
    {[BuilderId |-> "mitchellh.virtualbox", Id |-> "virtualbox",
      Files |-> [i \in 1..n |-> FileName(i)]] : n \in 0..MaxFiles}

\* A plausible slip: the removal is never scheduled.
DeferRemove_Forgotten(stack, name) == stack

\* defer os.Remove(tf.Name())
DeferRemove(stack, name) == Append(stack, [op |-> "Remove", arg |-> name])

\* defer f.Close()
DeferClose(stack, path) == Append(stack, [op |-> "Close", arg |-> path])

\* The deferred calls run last in, first out; os.Remove unlinks its path.
RECURSIVE RunDeferred(_, _)
RunDeferred(stack, files) ==
    IF stack = <<>> THEN files
    ELSE LET d == stack[Len(stack)]
             rest == SubSeq(stack, 1, Len(stack) - 1)
         IN  RunDeferred(rest, IF d.op = "Remove" THEN files \ {d.arg} ELSE files)

\* A plausible slip: the line is not ended.
ShebangLine_NoNewline(shebang) == "#!" \o shebang

\* fmt.Sprintf("#!%s\n", p.config.InlineShebang)
ShebangLine(shebang) == "#!" \o shebang \o "\n"

\* bufio.Writer.WriteString(s) on w = [buf, file, err]: once an error is set
\* nothing more is written; otherwise s is buffered, or the buffer fills and
\* goes to the file, a write that can fail.  how: "buffer" | "spill" | "fail".
WriteString(w, s, how) ==
    IF w.err THEN w
    ELSE CASE how = "buffer" -> [w EXCEPT !.buf = @ \o s]
           [] how = "spill" -> [w EXCEPT !.file = @ \o w.buf \o s, !.buf = ""]
           [] how = "fail" -> [w EXCEPT !.err = TRUE]

\* The loop over p.config.Inline, from index i: it stops at the first error.
RECURSIVE WriteCommands(_, _, _, _)
WriteCommands(w, cmds, hows, i) ==
    IF i > Len(cmds) \/ w.err THEN w
    ELSE WriteCommands(WriteString(w, cmds[i] \o "\n", hows[i + 1]), cmds, hows, i + 1)

\* bufio.Writer.Flush(): the error already set, or the buffer goes to the file.
Flush(w, ok) ==
    IF w.err THEN w
    ELSE IF ok THEN [w EXCEPT !.file = @ \o w.buf, !.buf = ""]
    ELSE [w EXCEPT !.err = TRUE]

\* The writes of the inline script, shebang line first, then the flush.
WriteInline(c, hows, flushOk) ==
    LET w0 == [buf |-> "", file |-> "", err |-> FALSE]
        w1 == WriteString(w0, ShebangLine(c.InlineShebang), hows[1])
    IN  Flush(WriteCommands(w1, c.Inline.elems, hows, 1), flushOk)

\* A plausible slip: the temporary path is appended to the configured list.
AppendTemp_Shared(st, name) ==
    [config |-> [st.config EXCEPT !.Scripts.elems = Append(@, name)],
     scripts |-> Append(st.scripts, name)]

\* scripts = append(scripts, tf.Name()): scripts is the copy made on entry.
AppendTemp(st, name) ==
    [config |-> st.config, scripts |-> Append(st.scripts, name)]

\* envVars: the two fixed entries, then p.config.Vars.
EnvVars(c) ==
    <<"PACKER_BUILD_NAME=" \o c.PackerBuildName,
      "PACKER_BUILDER_TYPE=" \o c.PackerBuilderType>> \o c.Vars.elems

\* A plausible slip: the buffer is not reset.
ResetBuffer_Kept(buf) == buf

\* bytes.Buffer.Reset()
ResetBuffer(buf) == ""

\* A plausible slip: only a failed open ends the loop.
Failed_OpenOnly(status) == status = "openfail"

\* err != nil, after os.Open and after cmd.Run
Failed(status) == status # "exit0"

\* A plausible slip: the inner loop is left after its first script.
Advance_Break(f, s, m) == <<f + 1, 1>>

\* The next turn of the nested loops: the next script, or the next file.
Advance(f, s, m) == IF s < m THEN <<f, s + 1>> ELSE <<f + 1, 1>>

\* Nothing written yet.
NoneEmitted == [last |-> "", earlier |-> {}]

ErrPrepare == [kind |-> "prepare", msg |-> "Error preparing shell script: "]

ErrOpen == [kind |-> "open", msg |-> "Error opening shell script: "]

ErrExec(text) == [kind |-> "exec", msg |-> "Unable to execute script: " \o text]

\* What one run of /bin/sh does: it cannot be started, or it exits with a
\* status after writing to its standard error.
RunOutcomes ==
    {[status |-> "spawnfail", stderr |-> ""]}
    \cup [status : {"exit0", "exit1"}, stderr : {"", "warn", "boom"}]

\* PostProcess up to the loop, without inline commands.
BeginScripts ==
    /\ phase = "Configured" /\ pc = "idle" /\ calls < MaxCalls
    /\ config.Inline.nil
    /\ \E art \in Artifacts : artifact' = art
    /\ scripts' = config.Scripts.elems
    /\ envVars' = EnvVars(config)
    /\ tmpName' = ""
    /\ deferred' = <<>>
    /\ fi' = 1 /\ si' = 1
    /\ stderr' = "" /\ stdout' = ""
    /\ runs' = <<>>
    /\ emitted' = NoneEmitted
    /\ result' = NoResult
    /\ pc' = "loop"
    /\ UNCHANGED <<raw, config, phase, errs, fs, content, calls, failedCalls>>

\* PostProcess with inline commands when ioutil.TempFile fails.
BeginInlineNoTemp ==
    /\ phase = "Configured" /\ pc = "idle" /\ calls < MaxCalls
    /\ ~config.Inline.nil
    /\ \E art \in Artifacts : artifact' = art
    /\ scripts' = config.Scripts.elems
    /\ envVars' = <<>>
    /\ tmpName' = ""
    /\ deferred' = <<>>
    /\ fi' = 1 /\ si' = 1
    /\ stderr' = "" /\ stdout' = ""
    /\ runs' = <<>>
    /\ result' = [artifact |-> NoArtifact, keep |-> config.KeepInputArtifact,
                  err |-> ErrPrepare]
    /\ pc' = "returning"
    /\ emitted' = NoneEmitted
    /\ UNCHANGED <<raw, config, phase, errs, fs, content, calls, failedCalls>>

\* PostProcess up to the loop, with inline commands: the temporary file is
\* created, its removal deferred, and the script written to it.
BeginInline ==
    /\ phase = "Configured" /\ pc = "idle" /\ calls < MaxCalls
    /\ ~config.Inline.nil
    /\ \E art \in Artifacts : artifact' = art
    /\ \E name \in TmpNames \ fs :
       \* the write that fails (0: none; the last: the flush), and before
       \* it the write at which the buffer goes to the file (0: none)
       \E failAt \in 0..(Len(config.Inline.elems) + 2) :
       \E spillAt \in 0..(IF failAt = 0 THEN Len(config.Inline.elems) + 1
                           ELSE failAt - 1) :
          LET st == AppendTemp([config |-> config,
                                scripts |-> config.Scripts.elems], name)
              hows == [i \in 1..(Len(config.Inline.elems) + 1) |->
                          IF i = failAt THEN "fail"
                          ELSE IF i = spillAt THEN "spill" ELSE "buffer"]
              w  == WriteInline(config, hows,
                                failAt # Len(config.Inline.elems) + 2)
          IN  /\ tmpName' = name
              /\ fs' = fs \cup {name}
              /\ deferred' = DeferRemove(<<>>, name)
              /\ config' = st.config
              /\ scripts' = st.scripts
              /\ content' = w.file
              /\ IF w.err
                 THEN /\ result' = [artifact |-> NoArtifact,
                                    keep |-> config.KeepInputArtifact,
                                    err |-> ErrPrepare]
                      /\ envVars' = <<>>
                      /\ pc' = "returning"
                 ELSE /\ result' = NoResult
                      /\ envVars' = EnvVars(config)
                      /\ pc' = "loop"
    /\ fi' = 1 /\ si' = 1
    /\ stderr' = "" /\ stdout' = ""
    /\ runs' = <<>>
    /\ emitted' = NoneEmitted
    /\ UNCHANGED <<raw, phase, errs, calls, failedCalls>>

\* One turn of the inner loop: the script is opened and run on the file.
Invoke ==
    /\ pc = "loop"
    /\ fi <= Len(artifact.Files) /\ si <= Len(scripts)
    /\ LET path == scripts[si]
           art  == artifact.Files[fi]
           nx   == Advance(fi, si, Len(scripts))
       IN  \/ \* os.Open fails
              /\ stderr' = ResetBuffer(stderr)
              /\ stdout' = ResetBuffer(stdout)
              /\ runs' = Append(runs, [file |-> art, script |-> path,
                                       status |-> "openfail"])
              /\ result' = [artifact |-> NoArtifact,
                            keep |-> config.KeepInputArtifact, err |-> ErrOpen]
              /\ pc' = "returning"
              /\ UNCHANGED <<deferred, fi, si, emitted>>
           \/ \* os.Open succeeds and cmd.Run returns
              /\ path \in fs
              /\ \E out \in RunOutcomes :
                    /\ stderr' = ResetBuffer(stderr) \o out.stderr
                    /\ stdout' = ResetBuffer(stdout) \o
                                    (IF out.status = "spawnfail" THEN "" ELSE "out")
                    /\ runs' = Append(runs, [file |-> art, script |-> path,
                                             status |-> out.status])
                    /\ emitted' = [last |-> out.stderr,
                                   earlier |-> IF runs = <<>> THEN {}
                                               ELSE emitted.earlier \cup {emitted.last}]
                    /\ deferred' = DeferClose(deferred, path)
                    /\ IF Failed(out.status)
                       THEN /\ result' = [artifact |-> NoArtifact,
                                          keep |-> config.KeepInputArtifact,
                                          err |-> ErrExec(stderr')]
                            /\ pc' = "returning"
                            /\ UNCHANGED <<fi, si>>
                       ELSE /\ fi' = nx[1] /\ si' = nx[2]
                            /\ UNCHANGED <<result, pc>>
    /\ UNCHANGED <<raw, config, phase, errs, fs, content, artifact, scripts,
                   envVars, tmpName, calls, failedCalls>>

\* The loops are over: PostProcess returns the new artifact.
Succeed ==
    /\ pc = "loop"
    /\ fi > Len(artifact.Files) \/ Len(scripts) = 0
    /\ \E name \in Names, outputPath \in OutputPaths :
          result' = [artifact |-> NewArtifact(name, artifact.BuilderId, outputPath),
                     keep |-> config.KeepInputArtifact, err |-> NoError]
    /\ pc' = "returning"
    /\ UNCHANGED <<raw, config, phase, errs, fs, content, artifact, scripts,
                   envVars, tmpName, deferred, fi, si, stderr, stdout, runs,
                   calls, emitted, failedCalls>>

\* PostProcess returns: its deferred calls run.
Return ==
    /\ pc = "returning"
    /\ fs' = RunDeferred(deferred, fs)
    /\ deferred' = <<>>
    /\ pc' = "idle"
    /\ calls' = calls + 1
    /\ failedCalls' = IF result.err.kind = "none" THEN failedCalls
                      ELSE failedCalls + 1
    /\ UNCHANGED <<raw, config, phase, errs, content, artifact, scripts,
                   envVars, tmpName, fi, si, stderr, stdout, runs, result,
                   emitted>>

-----------------------------------------------------------------------------
(* The configurations config.Decode hands to Configure *)

\* The i-th inline command of a configuration.
Command(i) == "echo " \o ToString(i)

GoodVar == <<"k", "=", "v">>

EnvChars == {"k", "="}

\* The environment entries: every string of at most MaxEnvLen characters of
\* EnvChars, and one that is a template the engine cannot parse.
EnvEntries == SeqsUpTo(EnvChars, MaxEnvLen) \cup {<<"{">>}

\* The nil slice and the slices that are a prefix of s.
Prefixes(s) == {NilSlice} \cup {Slice(SubSeq(s, 1, n)) : n \in 0..Len(s)}

BaseConfig ==
    [Inline |-> NilSlice, InlineShebang |-> "", Script |-> "",
     Vars |-> NilSlice, Scripts |-> NilSlice, TargetPath |-> "",
     KeepInputArtifact |-> FALSE,
     PackerBuildName |-> "build", PackerBuilderType |-> "virtualbox-iso"]

\* Configurations that vary what PostProcess reads.
RunConfigs ==
    {[BaseConfig EXCEPT !.Inline = i, !.InlineShebang = sh, !.Scripts = ss,
                        !.KeepInputArtifact = k, !.Vars = Slice(<<GoodVar>>)] :
        i \in Prefixes([j \in 1..MaxInline |-> Command(j)]),
        sh \in {"", "/bin/bash"},
        ss \in Prefixes([j \in 1..MaxScripts |-> ScriptName(j)]),
        k \in BOOLEAN}

RuleInline(i) == IF i = 2 THEN "{{" ELSE Command(i)

\* Configurations that vary what the rules of Configure read.
RuleConfigs ==
    {[BaseConfig EXCEPT !.Inline = i, !.Script = s, !.Scripts = ss,
                        !.TargetPath = t, !.Vars = v] :
        i \in Prefixes([j \in 1..MaxInline |-> RuleInline(j)]),
        s \in {"", ScriptName(1), "missing.sh", "{{"},
        ss \in SlicesUpTo({ScriptName(1), "missing.sh"}, MaxScripts),
        t \in {"", "{{"},
        v \in SlicesUpTo({GoodVar, <<"=", "v">>, <<"k">>}, MaxVars)}

\* Configurations that vary the environment entries.
EnvConfigs ==
    {[BaseConfig EXCEPT !.Inline = Slice(<<Command(1)>>), !.Vars = Slice(v)] :
        v \in UNION {{<<e>>, <<GoodVar, e>>, <<e, <<"k">>>>} : e \in EnvEntries}}

InitWith(c) ==
    /\ raw = c
    /\ config = c
    /\ phase = "Unconfigured"
    /\ errs = <<>>
    /\ fs = ScriptFiles
    /\ content = ""
    /\ pc = "idle"
    /\ artifact = [BuilderId |-> "", Id |-> "", Files |-> <<>>]
    /\ scripts = <<>>
    /\ envVars = <<>>
    /\ tmpName = ""
    /\ deferred = <<>>
    /\ fi = 1
    /\ si = 1
    /\ stderr = ""
    /\ stdout = ""
    /\ runs = <<>>
    /\ result = NoResult
    /\ calls = 0
    /\ emitted = NoneEmitted
    /\ failedCalls = 0

Init == \E c \in RunConfigs : InitWith(c)

Next ==
    \/ Configure
    \/ BeginScripts
    \/ BeginInlineNoTemp
    \/ BeginInline
    \/ Invoke
    \/ Succeed
    \/ Return

Spec == Init /\ [][Next]_vars

InitConfigure == \E c \in RuleConfigs \cup EnvConfigs : InitWith(c)

NextConfigure == Configure

SpecConfigure == InitConfigure /\ [][NextConfigure]_vars

-----------------------------------------------------------------------------
(* Properties of PostProcess *)

\* The last call has returned, or is about to.
Returned == pc = "returning" \/ (pc = "idle" /\ calls > 0)

\* The script list a call resolves: the configured scripts, then the
\* temporary inline script when inline commands are configured.
ResolvedScripts ==
    config.Scripts.elems \o (IF config.Inline.nil THEN <<>> ELSE <<tmpName>>)

\* The k-th pair of the file-major enumeration of files x ss.
PairAt(files, ss, k) ==
    <<files[((k - 1) \div Len(ss)) + 1], ss[((k - 1) % Len(ss)) + 1]>>

\* C1: the runs of a call are, in order, a prefix of the file-major
\* enumeration of (file, script) pairs, and a call in which every run
\* succeeded has made exactly N*M of them.
C1_FileMajorOrder ==
    LET ss == ResolvedScripts
        n  == Len(artifact.Files)
        m  == Len(ss)
    IN  /\ \A k \in 1..Len(runs) :
              /\ k <= n * m
              /\ <<runs[k].file, runs[k].script>> = PairAt(artifact.Files, ss, k)
        /\ (Returned /\ result.err.kind = "none") => Len(runs) = n * m

C1_Witness ==
    /\ pc = "idle" /\ calls > 0 /\ result.err.kind = "none"
    /\ Len(artifact.Files) = 2 /\ Len(scripts) = 2
    /\ Len(runs) = 4
    /\ runs[2].file = runs[1].file /\ runs[2].script # runs[1].script

\* C2: a pair that fails (open, spawn or exit status) is the last pair the
\* call attempts, and the call then returns an error.
C2_StopAtFirstFailure ==
    \A k \in 1..Len(runs) :
        runs[k].status # "exit0" =>
            /\ k = Len(runs)
            /\ pc # "loop"
            /\ result.err.kind # "none"
            /\ result.artifact.nil

C2_Witness ==
    /\ pc = "idle" /\ calls > 0
    /\ Len(runs) = 1 /\ runs[1].status = "exit1"
    /\ Len(artifact.Files) = 2 /\ Len(scripts) = 2

\* C3: the error of an execution failure is "Unable to execute script: "
\* followed by exactly what the failing run wrote to standard error.
C3_ErrorCarriesFailingStderr ==
    result.err.kind = "exec" =>
        /\ Len(runs) > 0
        /\ runs[Len(runs)].status \in {"spawnfail", "exit1"}
        /\ result.err.msg = "Unable to execute script: " \o emitted.last

C3_Witness ==
    /\ result.err.kind = "exec"
    /\ Len(runs) = 2
    /\ "warn" \in emitted.earlier
    /\ emitted.last = "boom"

\* C4: once a call has returned, no temporary inline script is on disk.
C4_TempFileRemoved ==
    pc = "idle" => (tmpName \notin fs /\ fs \cap TmpNames = {})

C4_Witness ==
    /\ pc = "idle" /\ calls > 0
    /\ tmpName # ""
    /\ result.err.kind = "exec"

\* C8: a call in which every script succeeded returns an artifact with the
\* incoming artifact's BuilderId and Id, and the configured keep flag.
C8_SameIdentity ==
    (Returned /\ result.err.kind = "none") =>
        /\ ~result.artifact.nil
        /\ ArtifactBuilderId(result.artifact) = artifact.BuilderId
        /\ ArtifactId(result.artifact) = artifact.Id
        /\ result.keep = config.KeepInputArtifact

RECURSIVE Lines(_)
Lines(cmds) ==
    IF cmds = <<>> THEN "" ELSE Head(cmds) \o "\n" \o Lines(Tail(cmds))

\* C9: from before the first run of a call with inline commands, the
\* temporary script is on disk and holds "#!", the shebang ("/bin/sh" when
\* none is set), a newline, and then each command followed by a newline.
C9_InlineScriptContent ==
    ((pc = "loop" \/ Len(runs) > 0) /\ ~config.Inline.nil /\ pc # "idle") =>
        /\ tmpName \in fs
        /\ content = "#!"
                     \o (IF raw.InlineShebang = "" THEN "/bin/sh"
                         ELSE raw.InlineShebang)
                     \o "\n" \o Lines(config.Inline.elems)

C9_Witness ==
    /\ pc = "loop" /\ Len(runs) = 1
    /\ raw.InlineShebang = ""
    /\ config.Inline.elems = <<Command(1), Command(2)>>
    /\ content = "#!/bin/sh\necho 1\necho 2\n"

\* C10: no step of PostProcess changes the configuration, and every call
\* resolves its scripts from it.
C10_ConfigUnchanged ==
    /\ [][phase = "Configured" => config' = config]_vars
    /\ [](pc = "loop" => scripts = ResolvedScripts)

C10_Witness ==
    /\ failedCalls > 0
    /\ pc = "loop" /\ Len(runs) > 0
    /\ tmpName # ""

-----------------------------------------------------------------------------
(* Properties of Configure *)

HasError(kind) == \E j \in DOMAIN errs : errs[j].kind = kind

\* An entry that splits on its first "=" into a non-empty key and a value.
WellFormedEnv(kv) ==
    \E i \in 2..Len(kv) : kv[i] = "=" /\ \A j \in 1..(i - 1) : kv[j] # "="

\* C5: a configuration Configure accepts has exactly one of inline commands
\* and scripts non-empty; with neither, Configure reports that one must be
\* specified.
C5_ExactlyOneNonEmpty ==
    /\ phase = "Configured" =>
          (Len(config.Inline.elems) > 0) # (Len(config.Scripts.elems) > 0)
    /\ (phase # "Unconfigured" /\ Len(raw.Inline.elems) = 0 /\ raw.Script = ""
        /\ Len(raw.Scripts.elems) = 0) =>
          (phase = "ConfigFailed" /\ HasError("EitherRequired"))

\* The script list of the decoded configuration, script taken as a list.
RawScripts == IF raw.Script # "" THEN <<raw.Script>> ELSE raw.Scripts.elems

Count(kind, arg) ==
    Cardinality({j \in DOMAIN errs : errs[j].kind = kind /\ errs[j].arg = arg})

Occurrences(s, x) == Cardinality({i \in DOMAIN s : s[i] = x})

\* What the rules other than the choice between inline commands and
\* scripts require of the report: an entry for script and scripts both set,
\* for a target template that does not parse, for every inaccessible script
\* path and for every malformed environment entry, as often as it occurs.
OtherViolationsReported ==
    /\ (raw.Script # "" /\ Len(raw.Scripts.elems) > 0) => HasError("OnlyOneScript")
    /\ raw.TargetPath \in BadTemplates => HasError("TargetTemplate")
    /\ \A i \in DOMAIN RawScripts :
          LET path == RawScripts[i]
          IN  IF path \in BadTemplates
              THEN \E j \in DOMAIN errs : /\ errs[j].kind = "ProcessingElem"
                                           /\ errs[j].arg = <<"scripts", i>>
              ELSE path \notin ScriptFiles =>
                      Count("BadScript", <<path>>) >= Occurrences(RawScripts, path)
    /\ \A i \in DOMAIN raw.Vars.elems :
          LET kv == raw.Vars.elems[i]
          IN  IF "{" \in Range(kv)
              THEN \E j \in DOMAIN errs : /\ errs[j].kind = "ProcessingElem"
                                           /\ errs[j].arg = <<"environment_vars", i>>
              ELSE ~WellFormedEnv(kv) =>
                      Count("BadEnv", kv) >= Occurrences(raw.Vars.elems, kv)

\* C6: every rule the decoded configuration violates has its entry in the
\* report Configure returns: the rules above, neither inline commands nor
\* scripts given (an empty inline list gives none), and both given.
C6_AllViolationsReported ==
    phase # "Unconfigured" =>
        /\ OtherViolationsReported
        /\ (Len(raw.Inline.elems) = 0 /\ RawScripts = <<>>) => HasError("EitherRequired")
        /\ (Len(raw.Inline.elems) > 0 /\ RawScripts # <<>>) => HasError("NotBoth")
        /\ Len(errs) > 0 <=> phase = "ConfigFailed"

\* The same with "neither" read as the code reads it, inline absent (nil)
\* and no script: Configure reports every violation it detects, in one
\* report.
DetectedViolationsReported ==
    phase # "Unconfigured" =>
        /\ OtherViolationsReported
        /\ (raw.Inline.nil /\ RawScripts = <<>>) => HasError("EitherRequired")
        /\ (Len(raw.Inline.elems) > 0 /\ RawScripts # <<>>) => HasError("NotBoth")
        /\ Len(errs) > 0 <=> phase = "ConfigFailed"

\* C7: every entry of the configured environment list that is not
\* key=value with a non-empty key makes Configure fail with an error that
\* quotes that entry, and no entry that is key=value has such an error.
C7_BadEnvReported ==
    phase # "Unconfigured" =>
        /\ \A i \in DOMAIN config.Vars.elems :
              LET kv == config.Vars.elems[i]
              IN  ~WellFormedEnv(kv) =>
                     (phase = "ConfigFailed" /\ Count("BadEnv", kv) > 0)
        /\ \A j \in DOMAIN errs :
              errs[j].kind = "BadEnv" =>
                 /\ ~WellFormedEnv(errs[j].arg)
                 /\ \E i \in DOMAIN config.Vars.elems :
                       config.Vars.elems[i] = errs[j].arg

C7_Witness ==
    /\ phase = "ConfigFailed"
    /\ config.Vars.elems = <<GoodVar, <<"=", "k">>>>
    /\ Len(errs) = 1 /\ errs[1].kind = "BadEnv" /\ errs[1].arg = <<"=", "k">>

=============================================================================
